---- MODULE Spec2Model ----
(***************************************************************************)
(* A model of the earthquake-damage pipeline helpers:                      *)
(*   src/src/preprocess.py        align_features, remove_outliers,         *)
(*                                smote_oversample                         *)
(*   src/src/dataset.py           build_competition_tables,                *)
(*                                build_original_table, make_interim_comp  *)
(*   src/src/modeling/predict.py  create_submission                        *)
(*   src/src/modeling/train.py    build_rf_pipeline, build_xgboost_pipeline*)
(*                                                                         *)
(* A table (pandas DataFrame) is a record [columns, rows]: columns is the  *)
(* sequence of column names, rows the sequence of rows, each row a         *)
(* function from the column names to cell values.                          *)
(***************************************************************************)
EXTENDS Integers, Sequences, FiniteSets, TLC

VARIABLES
    pc,           \* position of the running operation
    error,        \* the exception the operation raised, or NoError
    train_df,     \* align_features: the caller's reference table
    test_df,      \* align_features: the caller's candidate table object
    test_in,      \* value of the candidate table when the call was made
    aligned,      \* align_features: returned table
    realigned,    \* align_features applied to its own result
    df,           \* remove_outliers: input table
    column,       \* remove_outliers: column name
    threshold,    \* remove_outliers: threshold
    filtered,     \* remove_outliers: returned table
    y_train,      \* smote_oversample: members per class of the label vector
    y_resampled,  \* smote_oversample: members per class of the result
    left,         \* merge: left table (train / structure)
    right,        \* merge: right table (labels / owner)
    test,         \* build_competition_tables: the test table passed along
    merged,       \* merge: the value returned
    raw,          \* make_interim_comp: the raw competition files
    loaded,       \* make_interim_comp: train, labels, test once loaded
    built,        \* make_interim_comp: df_i, test_i once built
    out,          \* make_interim_comp: the output directory and its files
    success,      \* make_interim_comp: "Interim artifacts written." logged
    exit_status,  \* make_interim_comp: how the command ended
    model,        \* create_submission: the fitted model
    test_file,    \* create_submission: the file at test_values_path
    format_file,  \* create_submission: submission_format.csv
    test_values,  \* create_submission: the local test_values
    encoded,      \* create_submission: what get_dummies returned
    passed,       \* create_submission: the table handed to model.predict
    predictions,  \* create_submission: what model.predict returned
    submission_format,  \* create_submission: the template read
    my_submission,      \* create_submission: the table built
    output,       \* create_submission: the file at output_path
    rf_params,    \* build_rf_pipeline: its argument
    xgboost_params,     \* build_xgboost_pipeline: its argument
    pipe          \* the pipeline a builder returned

alignVars == <<train_df, test_df, test_in, aligned, realigned>>
outVars == <<df, column, threshold, filtered>>
smoteVars == <<y_train, y_resampled>>
mergeVars == <<left, right, test, merged>>
interimVars == <<raw, loaded, built, out, success, exit_status>>

predVars == <<model, test_file, format_file, test_values, encoded, passed,
              predictions, submission_format, my_submission, output>>
trainVars == <<rf_params, xgboost_params, pipe>>

vars == <<pc, error, alignVars, outVars, smoteVars, mergeVars, interimVars,
          predVars, trainVars>>

----------------------------------------------------------------------------
(* Bounds of the model *)

MaxCols == 2
MaxRows == 2
MaxVal == 1
MaxCount == 7

(* Values the model draws from *)

Names == {"a", "b", "c"}
Values == {0, 1}
Classes == {1, 2, 3}

None == "None"
NoError == "NoError"
ValueError == "ValueError"

----------------------------------------------------------------------------
(* Helpers over sequences and tables *)

Range(s) == {s[i] : i \in DOMAIN s}

Injective(s) == \A i, j \in DOMAIN s : s[i] = s[j] => i = j

SeqsUpTo(S, n) == UNION {[1..k -> S] : k \in 0..n}

ColSeqs(names, n) == {s \in SeqsUpTo(names, n) : Injective(s)}

Perms(S) == {s \in [1..Cardinality(S) -> S] : Injective(s)}

TablesOf(colseqs, maxrows, vals) ==
    UNION {{[columns |-> cs, rows |-> rs] :
                rs \in SeqsUpTo([Range(cs) -> vals], maxrows)} : cs \in colseqs}

\* candidate tables: up to MaxCols columns, up to MaxRows rows
Tables == TablesOf(ColSeqs(Names, MaxCols), MaxRows, Values)

\* reference (training) tables: only their columns are read, so one row of
\* ones at most
RefTables == TablesOf(ColSeqs(Names, MaxCols), 1, {1})

\* df[cols]: a new table with the named columns, in that order
Select(t, cols) ==
    [columns |-> cols,
     rows |-> [i \in DOMAIN t.rows |-> [c \in Range(cols) |-> t.rows[i][c]]]]

\* df[c] = v for each c of order, in that order: new columns are appended
SetColumns(t, order, v) ==
    [columns |-> t.columns \o order,
     rows |-> [i \in DOMAIN t.rows |->
                  [c \in Range(t.columns) \cup Range(order) |->
                      IF c \in Range(order) THEN v ELSE t.rows[i][c]]]]

----------------------------------------------------------------------------
(* preprocess.py: align_features *)

\* missing_cols = set(train_df.columns) - set(test_df.columns)
missing_cols(trn, tst) == Range(trn.columns) \ Range(tst.columns)

\* a slip: the result is cut positionally (the trailing len(train_df.columns)
\* columns) instead of being selected by name
align_features_positional(trn, tst, order) ==
    LET mutated == SetColumns(tst, order, 0)
        n == Len(trn.columns)
        m == Len(mutated.columns)
        cols == SubSeq(mutated.columns, m - n + 1, m)
    IN  [ret |-> Select(mutated, cols), test_df |-> mutated]

\* a slip: the table with the fillers is returned without re-selecting the
\* training columns
align_features_noselect(trn, tst, order) ==
    LET mutated == SetColumns(tst, order, 0)
    IN  [ret |-> mutated, test_df |-> mutated]

\* order is the iteration order of the set missing_cols.  The loop assigns
\* into the caller's test_df; the return value is a new table.
align_features(trn, tst, order) ==
    LET mutated == SetColumns(tst, order, 0)
    IN  [ret |-> Select(mutated, trn.columns), test_df |-> mutated]

(* preprocess.py: remove_outliers *)

\* a cell is <<v>> for the number v and <<>> for a missing value (NaN)
NaN == <<>>
Cells == {<<v>> : v \in 0..MaxVal} \cup {NaN}

\* v <= threshold on a cell: NaN compares False
Leq(cell, t) == Len(cell) = 1 /\ cell[1] <= t

\* a slip: strict comparison
Lt(cell, t) == Len(cell) = 1 /\ cell[1] < t

Keep(cell, t) == Leq(cell, t)

RECURSIVE FilterRows(_, _, _)
FilterRows(rows, col, t) ==
    IF rows = <<>> THEN <<>>
    ELSE LET rest == FilterRows(Tail(rows), col, t)
         IN  IF Keep(Head(rows)[col], t) THEN <<Head(rows)>> \o rest ELSE rest

\* df[df[column] <= threshold]
remove_outliers(d, col, t) ==
    [columns |-> d.columns, rows |-> FilterRows(d.rows, col, t)]

OutlierTables ==
    TablesOf(ColSeqs({"a", "b"}, MaxCols) \ {<<>>}, MaxRows, Cells)

Thresholds == (0 - 1)..MaxVal

(* preprocess.py: smote_oversample *)

\* SMOTE's default k_neighbors
K_NEIGHBORS == 5

Max(S) == CHOOSE m \in S : \A x \in S : x <= m

Present(y) == {c \in DOMAIN y : y[c] > 0}

Majority(y) == Max({y[c] : c \in DOMAIN y})

\* the classes fit_resample synthesizes rows for ("not majority")
Minority(y) == {c \in Present(y) : y[c] < Majority(y)}

\* SMOTE queries k_neighbors + 1 neighbours (the sample itself included)
\* among the members of the class
NeighborsRequired == K_NEIGHBORS + 1

\* SMOTE(random_state).fit_resample(X_train, y_train.values.ravel()); the
\* library's failures are not caught, so they reach the caller as raised
smote_oversample(y) ==
    IF Cardinality(Present(y)) < 2
        THEN [error |-> ValueError, y |-> None]
    ELSE IF \E c \in Minority(y) : y[c] < NeighborsRequired
        THEN [error |-> ValueError, y |-> None]
    ELSE [error |-> NoError,
          y |-> [c \in DOMAIN y |-> IF c \in Present(y) THEN Majority(y) ELSE 0]]

----------------------------------------------------------------------------
(* The preprocessing helpers, each called on drawn inputs *)

AlignIdle ==
    /\ train_df = None /\ test_df = None /\ test_in = None
    /\ aligned = None /\ realigned = None

OutIdle == df = None /\ column = None /\ threshold = None /\ filtered = None

SmoteIdle == y_train = None /\ y_resampled = None

MergeIdle == left = None /\ right = None /\ test = None /\ merged = None

InterimIdle ==
    /\ raw = None /\ loaded = None /\ built = None /\ out = None
    /\ success = FALSE /\ exit_status = None

PredIdle ==
    /\ model = None /\ test_file = None /\ format_file = None
    /\ test_values = None /\ encoded = None /\ passed = None
    /\ predictions = None /\ submission_format = None
    /\ my_submission = None /\ output = None

TrainIdle == rf_params = None /\ xgboost_params = None /\ pipe = None

InitAlign ==
    /\ pc = "align_features"
    /\ train_df \in RefTables
    /\ test_df \in Tables
    /\ test_in = test_df
    /\ aligned = None /\ realigned = None
    /\ OutIdle /\ SmoteIdle

InitOutliers ==
    /\ pc = "remove_outliers"
    /\ df \in OutlierTables
    /\ column \in Range(df.columns)
    /\ threshold \in Thresholds
    /\ filtered = None
    /\ AlignIdle /\ SmoteIdle

InitSmote ==
    /\ pc = "smote_oversample"
    /\ y_train \in [Classes -> 0..MaxCount]
    /\ y_resampled = None
    /\ AlignIdle /\ OutIdle

InitPre ==
    /\ error = NoError
    /\ (InitAlign \/ InitOutliers \/ InitSmote)
    /\ MergeIdle /\ InterimIdle /\ PredIdle /\ TrainIdle

\* X_test = align_features(X_train, X_test)
AlignFeatures ==
    /\ pc = "align_features"
    /\ \E order \in Perms(missing_cols(train_df, test_df)) :
          LET r == align_features(train_df, test_df, order)
          IN  /\ test_df' = r.test_df
              /\ aligned' = r.ret
    /\ pc' = "aligned"
    /\ UNCHANGED <<error, train_df, test_in, realigned, outVars, smoteVars,
                   mergeVars, interimVars, predVars, trainVars>>

\* align_features(X_train, X_test) once more, on the table just returned
AlignAgain ==
    /\ pc = "aligned"
    /\ \E order \in Perms(missing_cols(train_df, aligned)) :
          LET r == align_features(train_df, aligned, order)
          IN  /\ aligned' = r.test_df
              /\ realigned' = r.ret
    /\ pc' = "realigned"
    /\ UNCHANGED <<error, train_df, test_df, test_in, outVars, smoteVars,
                   mergeVars, interimVars, predVars, trainVars>>

RemoveOutliers ==
    /\ pc = "remove_outliers"
    /\ filtered' = remove_outliers(df, column, threshold)
    /\ pc' = "filtered"
    /\ UNCHANGED <<error, alignVars, df, column, threshold, smoteVars,
                   mergeVars, interimVars, predVars, trainVars>>

SmoteOversample ==
    /\ pc = "smote_oversample"
    /\ LET r == smote_oversample(y_train)
       IN  /\ error' = r.error
           /\ y_resampled' = r.y
           /\ pc' = IF r.error = NoError THEN "resampled" ELSE "raised"
    /\ UNCHANGED <<alignVars, outVars, y_train, mergeVars, interimVars, predVars, trainVars>>

NextPre == AlignFeatures \/ AlignAgain \/ RemoveOutliers \/ SmoteOversample

SpecPre == InitPre /\ [][NextPre]_vars

----------------------------------------------------------------------------
(* Properties of the preprocessing helpers *)

\* C1: the table align_features returns has exactly the reference's column
\* sequence; a reference column absent from the candidate holds 0 in every
\* row, a candidate column not in the reference is absent, and a common
\* column keeps the candidate's values row for row.
C1_AlignMatchesReference ==
    pc = "aligned" =>
        /\ aligned.columns = train_df.columns
        /\ Len(aligned.rows) = Len(test_in.rows)
        /\ \A i \in DOMAIN aligned.rows :
              /\ DOMAIN aligned.rows[i] = Range(train_df.columns)
              /\ \A c \in Range(train_df.columns) :
                    aligned.rows[i][c] =
                        IF c \in Range(test_in.columns)
                            THEN test_in.rows[i][c] ELSE 0

\* a call with a missing, an extra and a common column, the common one
\* holding a nonzero value
C1_Witness ==
    /\ pc = "aligned"
    /\ Range(train_df.columns) \ Range(test_in.columns) # {}
    /\ Range(test_in.columns) \ Range(train_df.columns) # {}
    /\ \E c \in Range(train_df.columns) \cap Range(test_in.columns) :
          \E i \in DOMAIN test_in.rows : test_in.rows[i][c] = 1

\* C2: aligning the aligned table against the same reference returns the
\* same table (columns, order and cells).
C2_AlignIdempotent ==
    pc = "realigned" => realigned = aligned

\* the first call had to add and to drop a column of a table with rows
C2_Witness ==
    /\ pc = "realigned"
    /\ Range(train_df.columns) \ Range(test_in.columns) # {}
    /\ Range(test_in.columns) \ Range(train_df.columns) # {}
    /\ Len(test_in.rows) = MaxRows

\* C3: after align_features the caller's candidate table is what it was
\* before the call (fillers appear only in the returned table).
C3_CandidateUnchanged ==
    pc = "aligned" => test_df = test_in

\* C5: whenever a minority class has fewer members than the neighbours the
\* oversampler requires, smote_oversample raises InsufficientSamplesError.
C5_InsufficientSamplesRaised ==
    (/\ pc \in {"resampled", "raised"}
     /\ \E c \in Minority(y_train) : y_train[c] < NeighborsRequired)
        => error = "InsufficientSamplesError"

\* C7: remove_outliers returns exactly the rows whose value in the column
\* is at most the threshold, in their order; never more rows than df has.
KeptIndices == {i \in DOMAIN df.rows :
                   /\ df.rows[i][column] # NaN
                   /\ df.rows[i][column][1] <= threshold}

KthKept(k) ==
    CHOOSE i \in KeptIndices : Cardinality({j \in KeptIndices : j < i}) = k - 1

C7_OutliersRemoved ==
    pc = "filtered" =>
        /\ filtered.columns = df.columns
        /\ Len(filtered.rows) = Cardinality(KeptIndices)
        /\ Len(filtered.rows) <= Len(df.rows)
        /\ \A k \in DOMAIN filtered.rows : filtered.rows[k] = df.rows[KthKept(k)]

\* a row at the threshold is kept and a row above it is dropped
C7_Witness ==
    /\ pc = "filtered"
    /\ \E i \in DOMAIN df.rows : df.rows[i][column] = <<threshold>>
    /\ \E i \in DOMAIN df.rows :
          df.rows[i][column] # NaN /\ df.rows[i][column][1] > threshold
    /\ Len(filtered.rows) = 1

----------------------------------------------------------------------------
(* dataset.py: the merges *)

BuildingIds == {1, 2}

TablesWith(cols, rowset, maxrows) ==
    {[columns |-> cols, rows |-> rs] : rs \in SeqsUpTo(rowset, maxrows)}

\* train_values / csv_building_structure: the key and one feature
LeftRowSet == [building_id : BuildingIds, age : {<<0>>, <<1>>}]
LeftTables(maxrows) == TablesWith(<<"building_id", "age">>, LeftRowSet, maxrows)

\* train_labels: the key and the label
LabelRowSet == [building_id : BuildingIds, damage_grade : {<<1>>, <<2>>}]
LabelTables(maxrows) ==
    TablesWith(<<"building_id", "damage_grade">>, LabelRowSet, maxrows)

\* csv_building_ownership_and_use: the key and one attribute
OwnerRowSet == [building_id : BuildingIds, count_families : {<<1>>, <<2>>}]
OwnerTables(maxrows) ==
    TablesWith(<<"building_id", "count_families">>, OwnerRowSet, maxrows)

RECURSIVE Without(_, _)
Without(cols, c) ==
    IF cols = <<>> THEN <<>>
    ELSE IF Head(cols) = c THEN Without(Tail(cols), c)
    ELSE <<Head(cols)>> \o Without(Tail(cols), c)

\* the rows of rrows whose key equals k, in their order
RECURSIVE Matches(_, _, _)
Matches(rrows, on, k) ==
    IF rrows = <<>> THEN <<>>
    ELSE IF Head(rrows)[on] = k
        THEN <<Head(rrows)>> \o Matches(Tail(rrows), on, k)
    ELSE Matches(Tail(rrows), on, k)

\* one output row: the left row's cells, then the right row's other cells
Combine(lrow, rrow, rcols) ==
    [c \in DOMAIN lrow \cup rcols |-> IF c \in DOMAIN lrow THEN lrow[c] ELSE rrow[c]]

\* a left row without a match: the right-only cells are null
Unmatched(lrow, rcols) ==
    [c \in DOMAIN lrow \cup rcols |-> IF c \in DOMAIN lrow THEN lrow[c] ELSE NaN]

RECURSIVE JoinRows(_, _, _, _, _)
JoinRows(lrows, rrows, on, rcols, how) ==
    IF lrows = <<>> THEN <<>>
    ELSE LET l == Head(lrows)
             m == Matches(rrows, on, l[on])
             here == IF m # <<>> THEN [i \in DOMAIN m |-> Combine(l, m[i], rcols)]
                     ELSE IF how = "left" THEN <<Unmatched(l, rcols)>>
                     ELSE <<>>
         IN  here \o JoinRows(Tail(lrows), rrows, on, rcols, how)

\* DataFrame.merge(r, on=on, how=how) for tables that share only the key
Merge(l, r, on, how) ==
    LET rcols == Without(r.columns, on)
    IN  [columns |-> l.columns \o rcols,
         rows |-> JoinRows(l.rows, r.rows, on, Range(rcols), how)]

\* a slip: how="inner"
merge_inner(l, r, on) == Merge(l, r, on, "inner")

\* .merge(..., on=on, how="left")
merge_left(l, r, on) == Merge(l, r, on, "left")

build_competition_tables(train, labels, tst) ==
    [df |-> merge_left(train, labels, "building_id"), test |-> tst]

build_original_table(structure, owner) ==
    merge_left(structure, owner, "building_id")

InitMerge ==
    /\ \/ /\ pc = "build_competition_tables"
          /\ left \in LeftTables(MaxRows)
          /\ right \in LabelTables(MaxRows)
          /\ test \in LeftTables(1)
       \/ /\ pc = "build_original_table"
          /\ left \in LeftTables(MaxRows)
          /\ right \in OwnerTables(MaxRows)
          /\ test = None
    /\ merged = None
    /\ error = NoError
    /\ AlignIdle /\ OutIdle /\ SmoteIdle /\ InterimIdle
    /\ PredIdle /\ TrainIdle

BuildCompetitionTables ==
    /\ pc = "build_competition_tables"
    /\ merged' = build_competition_tables(left, right, test)
    /\ pc' = "merged"
    /\ UNCHANGED <<error, alignVars, outVars, smoteVars, left, right, test,
                   interimVars, predVars, trainVars>>

BuildOriginalTable ==
    /\ pc = "build_original_table"
    /\ merged' = [df |-> build_original_table(left, right)]
    /\ pc' = "merged"
    /\ UNCHANGED <<error, alignVars, outVars, smoteVars, left, right, test,
                   interimVars, predVars, trainVars>>

NextMerge == BuildCompetitionTables \/ BuildOriginalTable

SpecMerge == InitMerge /\ [][NextMerge]_vars

(* Properties of the merges *)

Key == "building_id"

\* how many right rows carry the key of left row i
MatchCount(i) ==
    Cardinality({j \in DOMAIN right.rows : right.rows[j][Key] = left.rows[i][Key]})

\* how often left row i is to appear
Copies(i) == IF MatchCount(i) = 0 THEN 1 ELSE MatchCount(i)

\* how many result rows precede the rows of left row i
RECURSIVE Before(_)
Before(i) == IF i <= 1 THEN 0 ELSE Before(i - 1) + Copies(i - 1)

\* the d-th right row, in right's order, that carries the key of left row i
KthMatch(i, d) ==
    CHOOSE j \in DOMAIN right.rows :
        /\ right.rows[j][Key] = left.rows[i][Key]
        /\ Cardinality({h \in DOMAIN right.rows :
               h < j /\ right.rows[h][Key] = left.rows[i][Key]}) = d - 1

RightOnly == Range(right.columns) \ {Key}

\* C6: the result is the left outer join: every left row appears, once with
\* null right-only cells when it has no match and once per matching right
\* row otherwise, and the result follows the left table's row order.
C6_LeftOuterJoin ==
    pc = "merged" =>
        LET res == merged.df
        IN  /\ Len(res.rows) >= Len(left.rows)
            /\ Len(res.rows) = Before(Len(left.rows) + 1)
            /\ \A i \in DOMAIN left.rows : \A d \in 1..Copies(i) :
                  LET row == res.rows[Before(i) + d]
                  IN  /\ \A c \in Range(left.columns) : row[c] = left.rows[i][c]
                      /\ \A c \in RightOnly :
                            row[c] = IF MatchCount(i) = 0 THEN NaN
                                     ELSE right.rows[KthMatch(i, d)][c]

\* a left row without a match is followed by a left row with two matches
C6_Witness ==
    /\ pc = "merged"
    /\ Len(left.rows) = 2
    /\ MatchCount(1) = 0
    /\ MatchCount(2) = 2
    /\ Len(merged.df.rows) = 3

----------------------------------------------------------------------------
(* dataset.py: make_interim_comp *)

\* a file is <<content>>; an absent file is <<>>
Absent == <<>>
Files(contents) == {<<c>> : c \in contents} \cup {Absent}

\* a labels file whose header lacks the key column
KeylessLabelTables ==
    TablesWith(<<"damage_grade">>, [damage_grade : {<<1>>, <<2>>}], 1)

HasColumn(t, c) == c \in Range(t.columns)

InitInterim ==
    /\ pc = "load"
    /\ raw \in [train : Files(LeftTables(1)),
                labels : Files(LabelTables(1) \cup KeylessLabelTables),
                test : Files(LeftTables(1))]
    /\ loaded = None
    /\ built = None
    /\ out \in [dir : BOOLEAN, train : {Absent}, test : {Absent}]
    /\ success = FALSE
    /\ exit_status = "running"
    /\ error = NoError
    /\ AlignIdle /\ OutIdle /\ SmoteIdle /\ MergeIdle
    /\ PredIdle /\ TrainIdle

\* an exception leaves make_interim_comp: nothing in it catches one
Raise(e) ==
    /\ error' = e
    /\ pc' = "failed"
    /\ exit_status' = "failure"

\* train, labels, test = load_competition_raw(raw_dir): three read_csv
\* calls; parsed tells whether the files found parse
LoadCompetitionRaw ==
    /\ pc = "load"
    /\ \E parsed \in BOOLEAN :
          IF raw.train = Absent \/ raw.labels = Absent \/ raw.test = Absent
              THEN Raise("FileNotFoundError") /\ UNCHANGED loaded
          ELSE IF ~parsed
              THEN Raise("ParserError") /\ UNCHANGED loaded
          ELSE /\ loaded' = [train |-> raw.train[1], labels |-> raw.labels[1],
                             test |-> raw.test[1]]
               /\ pc' = "build"
               /\ UNCHANGED <<error, exit_status>>
    /\ UNCHANGED <<alignVars, outVars, smoteVars, mergeVars, predVars,
                   trainVars, raw, built, out,
                   success>>

\* df_i, test_i = build_competition_tables(train, labels, test); merge
\* raises KeyError when a table lacks the key column
BuildInterim ==
    /\ pc = "build"
    /\ IF HasColumn(loaded.train, Key) /\ HasColumn(loaded.labels, Key)
          THEN /\ built' = build_competition_tables(loaded.train, loaded.labels,
                                                    loaded.test)
               /\ pc' = "mkdir"
               /\ UNCHANGED <<error, exit_status>>
       ELSE Raise("KeyError") /\ UNCHANGED built
    /\ UNCHANGED <<alignVars, outVars, smoteVars, mergeVars, predVars,
                   trainVars, raw, loaded, out, success>>

\* out_dir.mkdir(parents=True, exist_ok=True)
Mkdir ==
    /\ pc = "mkdir"
    /\ \E ok \in BOOLEAN :
          IF ok THEN /\ out' = [out EXCEPT !.dir = TRUE]
                     /\ pc' = "write_train"
                     /\ UNCHANGED <<error, exit_status>>
          ELSE Raise("OSError") /\ UNCHANGED out
    /\ UNCHANGED <<alignVars, outVars, smoteVars, mergeVars, predVars,
                   trainVars, raw, loaded, built,
                   success>>

\* a slip: success is logged as soon as the train file is written
WriteTrainReporting ==
    /\ pc = "write_train"
    /\ \E ok \in BOOLEAN :
          IF ok THEN /\ out' = [out EXCEPT !.train = <<built.df>>]
                     /\ pc' = "write_test"
                     /\ success' = TRUE
                     /\ UNCHANGED <<error, exit_status>>
          ELSE Raise("OSError") /\ UNCHANGED <<out, success>>
    /\ UNCHANGED <<alignVars, outVars, smoteVars, mergeVars, predVars,
                   trainVars, raw, loaded, built>>

\* (out_dir / train_out).write_bytes(df_i.to_parquet(index=False))
WriteTrain ==
    /\ pc = "write_train"
    /\ \E ok \in BOOLEAN :
          IF ok THEN /\ out' = [out EXCEPT !.train = <<built.df>>]
                     /\ pc' = "write_test"
                     /\ UNCHANGED <<error, exit_status>>
          ELSE Raise("OSError") /\ UNCHANGED out
    /\ UNCHANGED <<alignVars, outVars, smoteVars, mergeVars, predVars,
                   trainVars, raw, loaded, built,
                   success>>

\* (out_dir / test_out).write_bytes(test_i.to_parquet(index=False))
WriteTest ==
    /\ pc = "write_test"
    /\ \E ok \in BOOLEAN :
          IF ok THEN /\ out' = [out EXCEPT !.test = <<built.test>>]
                     /\ pc' = "log_success"
                     /\ UNCHANGED <<error, exit_status>>
          ELSE Raise("OSError") /\ UNCHANGED out
    /\ UNCHANGED <<alignVars, outVars, smoteVars, mergeVars, predVars,
                   trainVars, raw, loaded, built,
                   success>>

\* logger.success("Interim artifacts written."), then the command returns
LogSuccess ==
    /\ pc = "log_success"
    /\ success' = TRUE
    /\ exit_status' = "success"
    /\ pc' = "done"
    /\ UNCHANGED <<error, alignVars, outVars, smoteVars, mergeVars, predVars,
                   trainVars, raw, loaded,
                   built, out>>

NextInterim ==
    LoadCompetitionRaw \/ BuildInterim \/ Mkdir \/ WriteTrain \/ WriteTest
        \/ LogSuccess

SpecInterim == InitInterim /\ [][NextInterim]_vars

(* Properties of make_interim_comp *)

\* C8: success is reported only once both interim files are written; a
\* failure of loading, merging or writing reaches the caller, and success
\* is not reported then.
C8_SuccessOnlyAfterBothWritten ==
    /\ success => /\ out.train = <<built.df>>
                  /\ out.test = <<built.test>>
                  /\ error = NoError
    /\ exit_status = "success" => success
    /\ error # NoError => /\ ~success
                          /\ exit_status = "failure"
                          /\ pc = "failed"

\* a run that wrote a merged train table with a row and reported success
C8_Witness ==
    /\ pc = "done"
    /\ success
    /\ out.train # Absent /\ out.test # Absent
    /\ Len(out.train[1].rows) = 1

----------------------------------------------------------------------------
(* modeling/predict.py: create_submission *)

\* the test files drawn: a numeric column "age" and a categorical column
\* "roof".  building_id is the row index (index_col) and is not read again:
\* the submission takes the template's index.
CatCols == {"roof"}
RoofLevels == <<"x", "y">>

TestRowSet(cols) ==
    IF Range(cols) = {"age", "roof"} THEN [age : Values, roof : Range(RoofLevels)]
    ELSE [roof : Range(RoofLevels)]

TestTables ==
    UNION {TablesWith(cols, TestRowSet(cols), MaxRows) :
               cols \in {<<"age", "roof">>, <<"roof">>}}

\* names a model may have been trained on: "roof_z" is a category the test
\* data never holds, "roof_y" a test category training never saw
FeatureNames == {"age", "roof_x", "roof_z"}

Models ==
    {[has_feature_names |-> TRUE, feature_names_in_ |-> fs,
      n_features_in_ |-> Len(fs)] : fs \in ColSeqs(FeatureNames, MaxCols) \ {<<>>}}
    \cup
    {[has_feature_names |-> FALSE, feature_names_in_ |-> <<>>,
      n_features_in_ |-> n] : n \in 0..MaxCols}

\* submission_format.csv: the index and the column names; its cells are
\* never read
Templates ==
    {[index |-> [i \in 1..n |-> i], columns |-> <<"damage_grade">>] :
        n \in 0..MaxRows}

RECURSIVE Restrict(_, _)
Restrict(seq, S) ==
    IF seq = <<>> THEN <<>>
    ELSE IF Head(seq) \in S THEN <<Head(seq)>> \o Restrict(Tail(seq), S)
    ELSE Restrict(Tail(seq), S)

\* the columns get_dummies encodes: dtype object.  read_csv gives every
\* column of a file without rows dtype object.
ObjectCols(t) == IF Len(t.rows) = 0 THEN Range(t.columns)
                 ELSE Range(t.columns) \cap CatCols

\* the categories a column holds, sorted
Levels(t, c) == Restrict(RoofLevels, {t.rows[i][c] : i \in DOMAIN t.rows})

DummiesOf(t, c) ==
    [k \in DOMAIN Levels(t, c) |->
        [name |-> c \o "_" \o Levels(t, c)[k], col |-> c, level |-> Levels(t, c)[k]]]

RECURSIVE AllDummies(_, _)
AllDummies(t, cols) ==
    IF cols = <<>> THEN <<>>
    ELSE DummiesOf(t, Head(cols)) \o AllDummies(t, Tail(cols))

\* pd.get_dummies(df): the other columns first, then one indicator column
\* per category of each encoded column
get_dummies(t) ==
    LET num == Restrict(t.columns, Range(t.columns) \ ObjectCols(t))
        dum == AllDummies(t, Restrict(t.columns, ObjectCols(t)))
        names == num \o [k \in DOMAIN dum |-> dum[k].name]
    IN  [columns |-> names,
         rows |-> [i \in DOMAIN t.rows |->
                      [n \in Range(names) |->
                          IF n \in Range(num) THEN t.rows[i][n]
                          ELSE LET d == CHOOSE d \in Range(dum) : d.name = n
                               IN  IF t.rows[i][d.col] = d.level THEN 1 ELSE 0]]]

\* a slip: the columns unknown to training are kept after the training ones
reindex_keeping(t, cols, fill) ==
    LET extra == Restrict(t.columns, Range(t.columns) \ Range(cols))
    IN  [columns |-> cols \o extra,
         rows |-> [i \in DOMAIN t.rows |->
                      [c \in Range(cols) \cup Range(extra) |->
                          IF c \in Range(t.columns) THEN t.rows[i][c] ELSE fill]]]

\* df.reindex(columns=cols, fill_value=fill)
reindex(t, cols, fill) ==
    [columns |-> cols,
     rows |-> [i \in DOMAIN t.rows |->
                  [c \in Range(cols) |->
                      IF c \in Range(t.columns) THEN t.rows[i][c] ELSE fill]]]

\* pd.DataFrame(data=data, columns=columns, index=index) for a
\* one-dimensional data: the shapes have to agree
DataFrame(data, columns, index) ==
    IF Len(data) # Len(index) \/ Len(columns) # 1
        THEN [error |-> ValueError, frame |-> Absent]
    ELSE [error |-> NoError,
          frame |-> <<[index |-> index, columns |-> columns,
                       rows |-> [i \in DOMAIN data |->
                                    [c \in Range(columns) |-> data[i]]]]>>]

InitPredict ==
    /\ pc = "read_test"
    /\ model \in Models
    /\ test_file \in Files(TestTables)
    /\ format_file \in Files(Templates)
    /\ test_values = None
    /\ encoded = None
    /\ passed = Absent
    /\ predictions = Absent
    /\ submission_format = Absent
    /\ my_submission = Absent
    /\ output = Absent
    /\ error = NoError
    /\ AlignIdle /\ OutIdle /\ SmoteIdle /\ MergeIdle /\ InterimIdle /\ TrainIdle

PredFrame == <<alignVars, outVars, smoteVars, mergeVars, interimVars, trainVars,
               model, test_file, format_file>>

\* test_values = pd.read_csv(test_values_path, index_col="building_id")
ReadTestValues ==
    /\ pc = "read_test"
    /\ IF test_file = Absent
          THEN /\ error' = "FileNotFoundError"
               /\ pc' = "failed"
               /\ UNCHANGED test_values
       ELSE /\ test_values' = test_file[1]
            /\ pc' = "get_dummies"
            /\ UNCHANGED error
    /\ UNCHANGED <<PredFrame, encoded, passed, predictions, submission_format,
                   my_submission, output>>

\* test_values = pd.get_dummies(test_values)
GetDummies ==
    /\ pc = "get_dummies"
    /\ test_values' = get_dummies(test_values)
    /\ encoded' = test_values'
    /\ pc' = "reindex"
    /\ UNCHANGED <<error, PredFrame, passed, predictions, submission_format,
                   my_submission, output>>

\* if hasattr(model, "feature_names_in_"): test_values = test_values.reindex(
\*     columns=model.feature_names_in_, fill_value=0)
Reindex ==
    /\ pc = "reindex"
    /\ test_values' = IF model.has_feature_names
                          THEN reindex(test_values, model.feature_names_in_, 0)
                      ELSE test_values
    /\ pc' = "predict"
    /\ UNCHANGED <<error, PredFrame, encoded, passed, predictions,
                   submission_format, my_submission, output>>

\* predictions = model.predict(test_values): one grade per row, which grade
\* is the model's business; a fitted estimator refuses a table whose number
\* of columns is not the one it was fitted on
Predict ==
    /\ pc = "predict"
    /\ passed' = <<test_values>>
    /\ IF Len(test_values.columns) # model.n_features_in_
          THEN /\ error' = ValueError
               /\ pc' = "failed"
               /\ UNCHANGED predictions
       ELSE /\ \E p \in [DOMAIN test_values.rows -> Classes] :
                  predictions' = <<p>>
            /\ pc' = "read_format"
            /\ UNCHANGED error
    /\ UNCHANGED <<PredFrame, test_values, encoded, submission_format,
                   my_submission, output>>

\* submission_format = pd.read_csv(".../submission_format.csv",
\*                                 index_col="building_id")
ReadSubmissionFormat ==
    /\ pc = "read_format"
    /\ IF format_file = Absent
          THEN /\ error' = "FileNotFoundError"
               /\ pc' = "failed"
               /\ UNCHANGED submission_format
       ELSE /\ submission_format' = format_file
            /\ pc' = "build"
            /\ UNCHANGED error
    /\ UNCHANGED <<PredFrame, test_values, encoded, passed, predictions,
                   my_submission, output>>

\* my_submission = pd.DataFrame(data=predictions,
\*     columns=submission_format.columns, index=submission_format.index)
BuildSubmission ==
    /\ pc = "build"
    /\ LET r == DataFrame(predictions[1], submission_format[1].columns,
                          submission_format[1].index)
       IN  /\ error' = r.error
           /\ my_submission' = r.frame
           /\ pc' = IF r.error = NoError THEN "to_csv" ELSE "failed"
    /\ UNCHANGED <<PredFrame, test_values, encoded, passed, predictions,
                   submission_format, output>>

\* my_submission.to_csv(output_path)
ToCsv ==
    /\ pc = "to_csv"
    /\ \E ok \in BOOLEAN :
          IF ok THEN /\ output' = my_submission
                     /\ pc' = "done"
                     /\ UNCHANGED error
          ELSE /\ error' = "OSError"
               /\ pc' = "failed"
               /\ UNCHANGED output
    /\ UNCHANGED <<PredFrame, test_values, encoded, passed, predictions,
                   submission_format, my_submission>>

NextPredict ==
    ReadTestValues \/ GetDummies \/ Reindex \/ Predict \/ ReadSubmissionFormat
        \/ BuildSubmission \/ ToCsv

SpecPredict == InitPredict /\ [][NextPredict]_vars

(* Properties of create_submission *)

\* C4: create_submission either writes a table with the template's N row
\* identifiers and column names whose cells are the predictions, or, when
\* the number of predictions differs from N, fails with
\* SchemaMismatchError.
C4_SubmissionOrSchemaMismatch ==
    /\ pc = "done" =>
          /\ output # Absent
          /\ output[1].index = submission_format[1].index
          /\ output[1].columns = submission_format[1].columns
          /\ \A i \in DOMAIN output[1].rows :
                output[1].rows[i]["damage_grade"] = predictions[1][i]
    /\ (/\ pc = "failed"
        /\ predictions # Absent
        /\ submission_format # Absent
        /\ Len(predictions[1]) # Len(submission_format[1].index))
          => error = "SchemaMismatchError"

\* C9: with recorded feature names, the table handed to predict has exactly
\* those names as columns, in that order, a name the encoded test data
\* lacks holding 0 and every other cell the encoded value; without
\* recorded names the encoded table is handed over as it is.
C9_PredictInputSchema ==
    passed # Absent =>
        LET X == passed[1]
        IN  IF model.has_feature_names
                THEN /\ X.columns = model.feature_names_in_
                     /\ Len(X.rows) = Len(encoded.rows)
                     /\ \A i \in DOMAIN X.rows :
                           /\ DOMAIN X.rows[i] = Range(model.feature_names_in_)
                           /\ \A c \in Range(model.feature_names_in_) :
                                 X.rows[i][c] =
                                     IF c \in Range(encoded.columns)
                                         THEN encoded.rows[i][c] ELSE 0
            ELSE X = encoded

\* the model knows a category the test data lacks ("roof_z") and the test
\* data holds one the model never saw ("roof_y")
C9_Witness ==
    /\ passed # Absent
    /\ model.has_feature_names
    /\ "roof_z" \in Range(model.feature_names_in_)
    /\ "roof_y" \in Range(encoded.columns)
    /\ Range(encoded.columns) \cap Range(model.feature_names_in_) # {}
    /\ Len(encoded.rows) = MaxRows

----------------------------------------------------------------------------
(* modeling/train.py: the pipeline builders *)

\* Python values: None is <<>>, a number or string v is <<v>>, a dict d is
\* <<"dict", d>>
PyNone == <<>>
Dict(d) == <<"dict", d>>

RFNames == {"n_estimators", "max_depth", "min_samples_leaf"}
XGBNames == {"n_estimators", "max_depth", "learning_rate"}

\* the hyperparameter mappings drawn: any subset of the names, or None
Mappings(names) ==
    UNION {[S -> {<<1>>, <<2>>}] : S \in SUBSET names}

ParamArgs(names) == {Dict(d) : d \in Mappings(names)} \cup {PyNone}

\* the library defaults of the hyperparameters modelled
RFDefaults ==
    [n_estimators |-> <<100>>, max_depth |-> PyNone, min_samples_leaf |-> <<1>>]
XGBDefaults ==
    [objective |-> <<"binary:logistic">>, n_estimators |-> PyNone,
     max_depth |-> PyNone, learning_rate |-> PyNone]

\* StandardScaler(with_mean=False)
StandardScaler == [step |-> "standardscaler", with_mean |-> FALSE, fitted |-> FALSE]

\* RandomForestClassifier(arg): the first positional parameter of the
\* constructor is n_estimators; the constructor validates nothing
RandomForestClassifier(arg) ==
    [step |-> "randomforestclassifier",
     params |-> [RFDefaults EXCEPT !.n_estimators = arg],
     fitted |-> FALSE]

\* make_pipeline(StandardScaler(with_mean=False),
\*               RandomForestClassifier(rf_params))
build_rf_pipeline(params) == <<StandardScaler, RandomForestClassifier(params)>>

\* XGBClassifier(arg).  What a positional argument does depends on the
\* xgboost release installed: the constructor takes keyword arguments only
\* (TypeError), or binds it to its first parameter, objective or max_depth.
XGBBindings == {"TypeError", "objective", "max_depth"}

XGBClassifier(arg, binding) ==
    [step |-> "xgbclassifier",
     params |-> [XGBDefaults EXCEPT ![binding] = arg],
     fitted |-> FALSE]

\* make_pipeline(StandardScaler(with_mean=False),
\*               (XGBClassifier(xgboost_params)))
build_xgboost_pipeline(params, binding) ==
    IF binding = "TypeError"
        THEN [error |-> "TypeError", pipe |-> None]
    ELSE [error |-> NoError,
          pipe |-> <<StandardScaler, XGBClassifier(params, binding)>>]

InitTrain ==
    /\ \/ /\ pc = "build_rf_pipeline"
          /\ rf_params \in ParamArgs(RFNames)
          /\ xgboost_params = None
       \/ /\ pc = "build_xgboost_pipeline"
          /\ xgboost_params \in ParamArgs(XGBNames)
          /\ rf_params = None
    /\ pipe = None
    /\ error = NoError
    /\ AlignIdle /\ OutIdle /\ SmoteIdle /\ MergeIdle /\ InterimIdle /\ PredIdle

BuildRfPipeline ==
    /\ pc = "build_rf_pipeline"
    /\ pipe' = build_rf_pipeline(rf_params)
    /\ pc' = "built_rf"
    /\ UNCHANGED <<error, alignVars, outVars, smoteVars, mergeVars, interimVars,
                   predVars, rf_params, xgboost_params>>

BuildXgboostPipeline ==
    /\ pc = "build_xgboost_pipeline"
    /\ \E binding \in XGBBindings :
          LET r == build_xgboost_pipeline(xgboost_params, binding)
          IN  /\ error' = r.error
              /\ pipe' = r.pipe
              /\ pc' = IF r.error = NoError THEN "built_xgb" ELSE "raised"
    /\ UNCHANGED <<alignVars, outVars, smoteVars, mergeVars, interimVars,
                   predVars, rf_params, xgboost_params>>

NextTrain == BuildRfPipeline \/ BuildXgboostPipeline

SpecTrain == InitTrain /\ [][NextTrain]_vars

(* Properties of the builders *)

\* the mapping an argument stands for: None stands for the empty one
Given(arg) == IF arg = PyNone THEN <<>> ELSE arg[2]

\* every entry of the mapping is the hyperparameter of that name, and every
\* other hyperparameter has its default
Carries(clf, arg, defaults) ==
    \A n \in DOMAIN clf.params :
        clf.params[n] = IF n \in DOMAIN Given(arg) THEN Given(arg)[n]
                        ELSE defaults[n]

\* C10: each builder returns an unfitted pipeline of a scaler without
\* mean-centering and the classifier, every entry of the mapping set as the
\* classifier hyperparameter of that name and, for an empty or absent
\* mapping, every hyperparameter at its default.
C10_BuildersSetHyperparameters ==
    /\ pc = "built_rf" =>
          /\ Len(pipe) = 2
          /\ pipe[1].step = "standardscaler" /\ ~pipe[1].with_mean
          /\ ~pipe[1].fitted /\ ~pipe[2].fitted
          /\ Carries(pipe[2], rf_params, RFDefaults)
    /\ pc = "built_xgb" =>
          /\ Len(pipe) = 2
          /\ pipe[1].step = "standardscaler" /\ ~pipe[1].with_mean
          /\ ~pipe[1].fitted /\ ~pipe[2].fitted
          /\ Carries(pipe[2], xgboost_params, XGBDefaults)
    /\ pc # "raised"

====
